---- MODULE Spec2Model ----
(***************************************************************************)
(* expresso / cocoa: the lexer (lexer.rs), the Pratt parser that evaluates *)
(* while it parses (parser.rs), the binding-power and function tables      *)
(* (token.rs) and ufactorial (math.rs).                                    *)
(*                                                                         *)
(* f64 values.  A value of class "q" is the f64 whose sign bit is `neg`    *)
(* and whose magnitude is n/d, with n/d in lowest terms, d a power of two  *)
(* and n, d <= Lim: such values are exactly representable, and every       *)
(* operation whose IEEE-754 result is again such a value is computed       *)
(* exactly.  Every other result is kept as the operation that produces it  *)
(* (class "sym": operator and arguments), a u64 converted to f64 (class    *)
(* "u64": 16-bit limbs, least significant first) or the f64 nearest to a   *)
(* decimal literal (class "lit": the literal's characters).                *)
(***************************************************************************)
EXTENDS Integers, Sequences, FiniteSets, TLC

\* Range of the exactly computed f64 values (numerator and denominator).
Lim == 30000

Q(neg, n, d) == [cls |-> "q", neg |-> neg, n |-> n, d |-> d]

Sym(op, args) == [cls |-> "sym", op |-> op, args |-> args]

U64Val(limbs) == [cls |-> "u64", limbs |-> limbs]

Lit(buf) == [cls |-> "lit", text |-> buf]

FromInt(i) == IF i < 0 THEN Q(TRUE, -i, 1) ELSE Q(FALSE, i, 1)

IsQ(v) == v.cls = "q"

RECURSIVE GCD(_, _)
GCD(a, b) == IF b = 0 THEN a ELSE GCD(b, a % b)

RECURSIVE IsPow2(_)
IsPow2(d) == d = 1 \/ (d > 1 /\ d % 2 = 0 /\ IsPow2(d \div 2))

\* The f64 of sign `neg` and magnitude n/d when it is in the exact range,
\* otherwise the unevaluated operation `other`.
Exact(neg, n, d, other) ==
    LET g == GCD(n, d)
        nn == n \div g
        dd == d \div g
    IN  IF nn <= Lim /\ dd <= Lim /\ IsPow2(dd) THEN Q(neg, nn, dd) ELSE other

\* Signed numerator of a class-q value over the denominator d * e.
Scaled(v, e) == (IF v.neg THEN -1 ELSE 1) * v.n * e

Abs(i) == IF i < 0 THEN -i ELSE i

\* f64 negation: flips the sign bit.
FNeg(a) == IF IsQ(a) THEN Q(~a.neg, a.n, a.d) ELSE Sym("neg", <<a>>)

\* f64 absolute value: clears the sign bit.
FAbs(a) == IF IsQ(a) THEN Q(FALSE, a.n, a.d) ELSE Sym("abs", <<a>>)

\* IEEE-754 addition (round to nearest): an exact zero sum is -0 only when
\* both operands are negative.
AddQ(a, b, other) ==
    LET s == Scaled(a, b.d) + Scaled(b, a.d)
    IN  IF s = 0 THEN Q(a.neg /\ b.neg, 0, 1)
        ELSE Exact(s < 0, Abs(s), a.d * b.d, other)

FAdd(a, b) ==
    IF IsQ(a) /\ IsQ(b) THEN AddQ(a, b, Sym("Plus", <<a, b>>)) ELSE Sym("Plus", <<a, b>>)

FSub(a, b) ==
    IF IsQ(a) /\ IsQ(b) THEN AddQ(a, FNeg(b), Sym("Minus", <<a, b>>))
    ELSE Sym("Minus", <<a, b>>)

FMul(a, b) ==
    IF IsQ(a) /\ IsQ(b)
    THEN Exact(a.neg # b.neg, a.n * b.n, a.d * b.d, Sym("Star", <<a, b>>))
    ELSE Sym("Star", <<a, b>>)

\* Division by zero gives an infinity or a NaN: kept unevaluated.
FDiv(a, b) ==
    IF IsQ(a) /\ IsQ(b) /\ b.n # 0
    THEN Exact(a.neg # b.neg, a.n * b.d, a.d * b.n, Sym("Slash", <<a, b>>))
    ELSE Sym("Slash", <<a, b>>)

\* The f64 `%` operator (fmod): exact, with the sign of the dividend.
FRem(a, b) ==
    Exact(a.neg, (a.n * b.d) % (b.n * a.d), a.d * b.d, Sym("rem", <<a, b>>))

\* The truncated remainder `%` in place of rem_euclid.
FRemEuclid_Truncated(a, b) ==
    IF IsQ(a) /\ IsQ(b) /\ b.n # 0 THEN FRem(a, b) ELSE Sym("Modulo", <<a, b>>)

\* f64::rem_euclid: let r = self % rhs; if r < 0.0 { r + rhs.abs() } else { r }
FRemEuclid(a, b) ==
    IF IsQ(a) /\ IsQ(b) /\ b.n # 0
    THEN LET r == FRem(a, b)
         IN  IF IsQ(r) /\ r.neg /\ r.n # 0
             THEN AddQ(r, FAbs(b), Sym("Modulo", <<a, b>>))
             ELSE r
    ELSE Sym("Modulo", <<a, b>>)

\* n^e, stopping as soon as the product leaves the exact range.
RECURSIVE PowAcc(_, _, _)
PowAcc(n, e, acc) ==
    IF e = 0 \/ acc > Lim THEN acc ELSE PowAcc(n, e - 1, acc * n)

PowNat(n, e) ==
    IF e = 0 THEN 1
    ELSE IF n = 0 THEN 0
    ELSE IF n = 1 THEN 1
    ELSE PowAcc(n, e, 1)

\* f64::powf for an integer exponent: x^0 = 1; a negative base gives a
\* negative power exactly for an odd exponent; a negative exponent gives the
\* reciprocal (an infinity for a zero base: kept unevaluated).
FPow(a, b) ==
    IF IsQ(a) /\ IsQ(b) /\ b.d = 1
    THEN IF b.n = 0 THEN Q(FALSE, 1, 1)
         ELSE LET pn == PowNat(a.n, b.n)
                  pd == PowNat(a.d, b.n)
                  sg == a.neg /\ b.n % 2 = 1
                  other == Sym("Caret", <<a, b>>)
              IN  IF pn > Lim \/ pd > Lim THEN other
                  ELSE IF ~b.neg THEN Exact(sg, pn, pd, other)
                  ELSE IF pn = 0 THEN other
                  ELSE Exact(sg, pd, pn, other)
    ELSE Sym("Caret", <<a, b>>)

(***************************************************************************)
(* token.rs                                                                *)
(***************************************************************************)
OpKind == {"Plus", "Minus", "Star", "Slash", "Modulo", "Caret", "Factorial"}

FuncKind ==
    {"Sin", "Cos", "Tan", "Asin", "Acos", "Atan", "Deg", "Rad", "Exp", "Ln", "Log", "Sqrt"}

Number(v) == [t |-> "Number", num |-> v]
Op(o) == [t |-> "Op", op |-> o]
Func(f) == [t |-> "Func", op |-> f]
LParen == [t |-> "LParen"]
RParen == [t |-> "RParen"]

\* OpKind::bp with Star and Slash given the binding power of Plus and Minus.
OpBp_StarAsPlus(o) ==
    CASE o \in {"Plus", "Minus", "Star", "Slash"} -> 5
      [] o = "Modulo" -> 15
      [] o = "Caret" -> 25
      [] o = "Factorial" -> 30

\* impl Bindable for OpKind
OpBp(o) ==
    CASE o \in {"Plus", "Minus"} -> 5
      [] o \in {"Star", "Slash"} -> 10
      [] o = "Modulo" -> 15
      [] o = "Caret" -> 25
      [] o = "Factorial" -> 30

\* impl Bindable for FuncKind
FuncBp(f) == 35

IsSquare(n) == \E r \in 0..n : r * r = n
ISqrt(n) == CHOOSE r \in 0..n : r * r = n

\* FuncKind::eval.  The results that are exact: the square root of a
\* perfect square, and each function at the argument where its value is 0
\* or 1.  Every other result is kept unevaluated.
FuncEval(f, x) ==
    LET other == Sym(f, <<x>>)
        zero == IsQ(x) /\ x.n = 0
        one == IsQ(x) /\ x.n = 1 /\ x.d = 1 /\ ~x.neg
    IN  CASE f = "Sqrt" ->
               IF IsQ(x) /\ (~x.neg \/ x.n = 0) /\ IsSquare(x.n) /\ IsSquare(x.d)
               THEN Q(x.neg, ISqrt(x.n), ISqrt(x.d)) ELSE other
          [] f \in {"Sin", "Tan", "Asin", "Atan", "Deg", "Rad"} ->
               IF zero THEN x ELSE other
          [] f \in {"Cos", "Exp"} -> IF zero THEN Q(FALSE, 1, 1) ELSE other
          [] f \in {"Ln", "Log"} -> IF one THEN Q(FALSE, 0, 1) ELSE other
          [] f = "Acos" -> IF one THEN Q(FALSE, 0, 1) ELSE other

(***************************************************************************)
(* State.  The lexer reads the characters cs from position cpos on and     *)
(* pushes onto tokens; the parser reads tokens from position pos on.       *)
(* stack is parse's call stack (the innermost invocation last): each frame *)
(* holds the invocation's bp, its lhs, the place it is at (st) and the     *)
(* operator or function whose operand it is waiting for (op).              *)
(* overflow_checks is the build profile: an overflowing u64 multiplication *)
(* panics when it is set (debug) and wraps when it is not (release).       *)
(* parts is the list of pieces the input line was written as.              *)
(* invocations counts the calls of parse made so far.                      *)
(***************************************************************************)
VARIABLES cs, cpos, parts, lexres, tokens, pos, stack, result, invocations,
          overflow_checks

vars ==
    <<cs, cpos, parts, lexres, tokens, pos, stack, result, invocations, overflow_checks>>

lexvars == <<cs, cpos, parts, lexres>>

(***************************************************************************)
(* math.rs                                                                 *)
(***************************************************************************)
\* A u64 is four 16-bit limbs, least significant first.
Base == 65536

U64(n) == <<n, 0, 0, 0>>

\* The limbs of x * n + carry from limb i on: one limb more than x has.
RECURSIVE MulLimbs(_, _, _, _)
MulLimbs(x, n, i, carry) ==
    IF i > Len(x) THEN <<carry>>
    ELSE LET p == x[i] * n + carry
         IN  <<p % Base>> \o MulLimbs(x, n, i + 1, p \div Base)

\* pub fn ufactorial(n: u64) -> u64: the product n * ufactorial(n - 1) in
\* u64; a product that does not fit panics under overflow checks and wraps
\* without them.
RECURSIVE ufactorial(_)
ufactorial(n) ==
    IF n = 0 THEN [panic |-> FALSE, v |-> U64(1)]
    ELSE LET r == ufactorial(n - 1)
             p == MulLimbs(r.v, n, 1, 0)
         IN  IF r.panic THEN r
             ELSE IF p[5] # 0 /\ overflow_checks THEN [panic |-> TRUE, v |-> U64(0)]
             ELSE [panic |-> FALSE, v |-> SubSeq(p, 1, 4)]

\* `as f64` of a u64.
U64AsF64(x) ==
    IF x[2] = 0 /\ x[3] = 0 /\ x[4] = 0 /\ x[1] <= Lim THEN Q(FALSE, x[1], 1)
    ELSE U64Val(x)

(***************************************************************************)
(* parser.rs                                                               *)
(***************************************************************************)
NoToken == [t |-> "None"]

\* tokens.peek(), and the token after it.
Peek == IF pos < Len(tokens) THEN tokens[pos + 1] ELSE NoToken

Peek2 == IF pos + 1 < Len(tokens) THEN tokens[pos + 2] ELSE NoToken

\* The position after k calls of tokens.next().
Advance(k) == IF pos + k <= Len(tokens) THEN pos + k ELSE Len(tokens)

Frame(bp) == [bp |-> bp, st |-> "lead", lhs |-> Q(FALSE, 0, 1), op |-> ""]

Top == stack[Len(stack)]

SetTop(f) == [stack EXCEPT ![Len(stack)] = f]

NoResult == [k |-> "none"]

Ok(v) == [k |-> "ok", v |-> v]

Err(msg) == [k |-> "err", msg |-> msg]

\* The process aborts (a panic).
Panic(msg) == [k |-> "panic", msg |-> msg]

Running == result.k = "none" /\ Len(stack) > 0

At(st) == Running /\ Top.st = st

\* bail!: the error propagates through every invocation.
Bail(msg) == result' = Err(msg) /\ stack' = <<>>

\* lhs = match op { ... }: the infix operators.
Combine(op, lhs, rhs) ==
    CASE op = "Plus" -> FAdd(lhs, rhs)
      [] op = "Minus" -> FSub(lhs, rhs)
      [] op = "Star" -> FMul(lhs, rhs)
      [] op = "Slash" -> FDiv(lhs, rhs)
      [] op = "Modulo" -> FRemEuclid(lhs, rhs)
      [] op = "Caret" -> FPow(lhs, rhs)

\* The right-hand side of Caret parsed with bp, like the other operators.
RhsBp_CaretSame(op) == OpBp(op)

\* The binding power the right-hand side of an infix operator is parsed with.
RhsBp(op) == IF op = "Caret" THEN OpBp(op) - 1 ELSE OpBp(op)

\* The operand of a prefix plus or minus parsed with the infix binding power.
UnaryBp_Infix(o) == OpBp(o)

\* The binding power the operand of a prefix plus or minus is parsed with.
UnaryBp(o) == OpBp(o) + 15

\* Token::Number(n) => n
LeadNumber ==
    /\ At("lead") /\ Peek.t = "Number"
    /\ pos' = pos + 1
    /\ stack' = SetTop([Top EXCEPT !.st = "loop", !.lhs = Peek.num])
    /\ UNCHANGED <<lexvars, tokens, result, invocations, overflow_checks>>

\* Token::Func(f): the next token must be '(' and the argument is parsed
\* with the function's binding power.
LeadFunc ==
    /\ At("lead") /\ Peek.t = "Func"
    /\ pos' = Advance(2)
    /\ IF Peek2.t # "LParen"
       THEN Bail("expected '(' after token") /\ UNCHANGED invocations
       ELSE /\ stack' = Append(SetTop([Top EXCEPT !.st = "func", !.op = Peek.op]),
                               Frame(FuncBp(Peek.op)))
            /\ invocations' = invocations + 1
            /\ UNCHANGED result
    /\ UNCHANGED <<lexvars, tokens, overflow_checks>>

\* Token::Op(Plus | Minus): unary plus and minus.
LeadUnary ==
    /\ At("lead") /\ Peek.t = "Op" /\ Peek.op \in {"Plus", "Minus"}
    /\ pos' = pos + 1
    /\ stack' = Append(SetTop([Top EXCEPT !.st = "unary", !.op = Peek.op]),
                       Frame(UnaryBp(Peek.op)))
    /\ invocations' = invocations + 1
    /\ UNCHANGED <<lexvars, tokens, result, overflow_checks>>

\* Token::LParen: the group is parsed with binding power 0.
LeadGroup ==
    /\ At("lead") /\ Peek.t = "LParen"
    /\ pos' = pos + 1
    /\ stack' = Append(SetTop([Top EXCEPT !.st = "group"]), Frame(0))
    /\ invocations' = invocations + 1
    /\ UNCHANGED <<lexvars, tokens, result, overflow_checks>>

\* Any other operator, a ')' or the end of the tokens in leading position.
LeadError ==
    /\ At("lead")
    /\ \/ Peek.t = "Op" /\ Peek.op \notin {"Plus", "Minus"}
       \/ Peek.t \in {"RParen", "None"}
    /\ pos' = Advance(1)
    /\ Bail(CASE Peek.t = "Op" -> "unexpected operator token"
              [] Peek.t = "RParen" -> "unexpected token"
              [] Peek.t = "None" -> "unexpected end of statement")
    /\ UNCHANGED <<lexvars, tokens, invocations, overflow_checks>>

\* The main loop's break: the next token is a ')' or there is none, or it is
\* an operator whose binding power is not above this invocation's bp.
Breaks ==
    \/ Peek.t \in {"RParen", "None"}
    \/ Peek.t = "Op" /\ OpBp(Peek.op) <= Top.bp

\* _ => bail!("unexpected token ..."): a number, a function or a '(' where an
\* operator is expected.
LoopUnexpected ==
    /\ At("loop") /\ Peek.t \in {"Number", "Func", "LParen"}
    /\ Bail("unexpected token")
    /\ UNCHANGED <<lexvars, tokens, pos, invocations, overflow_checks>>

\* The factorial branch without its check of the sign: a negative lhs goes
\* on to the check of the fraction, and `lhs as u64` of a negative is 0.
Factorial_NoSignCheck(lhs) ==
    IF IsQ(lhs)
    THEN IF lhs.d # 1 THEN {Err("cannot calculate factorial of non integers")}
         ELSE LET r == ufactorial(IF lhs.neg THEN 0 ELSE lhs.n)
              IN  IF r.panic THEN {Panic("attempt to multiply with overflow")}
                  ELSE {Ok(U64AsF64(r.v))}
    ELSE {Ok(Sym("Factorial", <<lhs>>))}

\* What the factorial branch does with lhs, as the result of the whole call
\* (k = "err", "panic") or as the new lhs (k = "ok").  lhs.is_sign_negative()
\* is the sign bit and lhs.fract() != 0.0 a denominator other than 1;
\* `lhs as u64` is then the numerator.  For a value that is not computed
\* exactly the branch taken is not known: any of them.  For a u64 above the
\* exact range the recursion is that deep: the process aborts, or (without
\* overflow checks) the product, a multiple of 2^64, wraps to 0.
Factorial(lhs) ==
    CASE IsQ(lhs) ->
           IF lhs.neg THEN {Err("cannot calculate factorial of negative numbers")}
           ELSE IF lhs.d # 1 THEN {Err("cannot calculate factorial of non integers")}
           ELSE LET r == ufactorial(lhs.n)
                IN  IF r.panic THEN {Panic("attempt to multiply with overflow")}
                    ELSE {Ok(U64AsF64(r.v))}
      [] lhs.cls = "u64" ->
           {Panic("stack overflow")} \cup
           (IF overflow_checks THEN {} ELSE {Ok(Q(FALSE, 0, 1))})
      [] OTHER ->
           {Err("cannot calculate factorial of negative numbers"),
            Err("cannot calculate factorial of non integers"),
            Ok(Sym("Factorial", <<lhs>>))}

\* OpKind::Factorial, a postfix operator: consumed when its binding power is
\* above bp, then the loop continues with the new lhs.
LoopFactorial ==
    /\ At("loop") /\ Peek.t = "Op" /\ Peek.op = "Factorial"
    /\ OpBp(Peek.op) > Top.bp
    /\ pos' = pos + 1
    /\ \E r \in Factorial(Top.lhs) :
          IF r.k = "ok"
          THEN stack' = SetTop([Top EXCEPT !.lhs = r.v]) /\ UNCHANGED result
          ELSE result' = r /\ stack' = <<>>
    /\ UNCHANGED <<lexvars, tokens, invocations, overflow_checks>>

\* An infix operator whose binding power is above bp: consumed, and the
\* right-hand side is parsed with RhsBp.
LoopInfix ==
    /\ At("loop") /\ Peek.t = "Op" /\ Peek.op # "Factorial"
    /\ OpBp(Peek.op) > Top.bp
    /\ pos' = pos + 1
    /\ stack' = Append(SetTop([Top EXCEPT !.st = "infix", !.op = Peek.op]),
                       Frame(RhsBp(Peek.op)))
    /\ invocations' = invocations + 1
    /\ UNCHANGED <<lexvars, tokens, result, overflow_checks>>

\* The invocation on top of the stack returns Ok(lhs) to its caller.
Returns(st) ==
    /\ At("loop") /\ Breaks
    /\ Len(stack) > 1 /\ stack[Len(stack) - 1].st = st

Caller == stack[Len(stack) - 1]

\* The caller's frame becomes the top of the stack, with its lhs set.
Resume(lhs) ==
    [i \in 1..(Len(stack) - 1) |->
        IF i = Len(stack) - 1 THEN [Caller EXCEPT !.st = "loop", !.lhs = lhs, !.op = ""]
        ELSE stack[i]]

\* The outermost invocation rejecting a ')' that is left over.
ReturnTop_RejectExcess ==
    /\ At("loop") /\ Breaks /\ Len(stack) = 1
    /\ IF Peek.t = "RParen"
       THEN Bail("unmatched delimeter ')'")
       ELSE result' = Ok(Top.lhs) /\ stack' = <<>>
    /\ UNCHANGED <<lexvars, tokens, pos, invocations, overflow_checks>>

\* Ok(lhs) of the outermost invocation.
ReturnTop ==
    /\ At("loop") /\ Breaks /\ Len(stack) = 1
    /\ result' = Ok(Top.lhs)
    /\ stack' = <<>>
    /\ UNCHANGED <<lexvars, tokens, pos, invocations, overflow_checks>>

\* let rhs = parse(tokens, f.bp())?; f.eval(rhs)
ReturnFunc ==
    /\ Returns("func")
    /\ stack' = Resume(FuncEval(Caller.op, Top.lhs))
    /\ UNCHANGED <<lexvars, tokens, pos, result, invocations, overflow_checks>>

\* let rhs = parse(tokens, o.bp() + 15)?; rhs for Plus, -rhs for Minus
ReturnUnary ==
    /\ Returns("unary")
    /\ stack' = Resume(IF Caller.op = "Minus" THEN FNeg(Top.lhs) ELSE Top.lhs)
    /\ UNCHANGED <<lexvars, tokens, pos, result, invocations, overflow_checks>>

\* let lhs = parse(tokens, 0)?; the next token must be ')'
ReturnGroup ==
    /\ Returns("group")
    /\ pos' = Advance(1)
    /\ IF Peek.t # "RParen"
       THEN Bail("unmatched delimeter '('")
       ELSE stack' = Resume(Top.lhs) /\ UNCHANGED result
    /\ UNCHANGED <<lexvars, tokens, invocations, overflow_checks>>

\* let rhs = parse(tokens, ...)?; lhs = lhs op rhs
ReturnInfix ==
    /\ Returns("infix")
    /\ stack' = Resume(Combine(Caller.op, Caller.lhs, Top.lhs))
    /\ UNCHANGED <<lexvars, tokens, pos, result, invocations, overflow_checks>>

\* parse, one step of it.
parse ==
    \/ LeadNumber \/ LeadFunc \/ LeadUnary \/ LeadGroup \/ LeadError
    \/ LoopUnexpected \/ LoopFactorial \/ LoopInfix
    \/ ReturnTop \/ ReturnFunc \/ ReturnUnary \/ ReturnGroup \/ ReturnInfix

(***************************************************************************)
(* lexer.rs.  A character is a string of length one; cs.peek() is the      *)
(* character after the cpos consumed ones.                                 *)
(***************************************************************************)
AsciiDigit == {"0", "1", "2", "3", "4", "5", "6", "7", "8", "9"}

AsciiAlphabetic ==
    {"a", "b", "c", "d", "e", "f", "g", "h", "i", "j", "k", "l", "m",
     "n", "o", "p", "q", "r", "s", "t", "u", "v", "w", "x", "y", "z",
     "A", "B", "C", "D", "E", "F", "G", "H", "I", "J", "K", "L", "M",
     "N", "O", "P", "Q", "R", "S", "T", "U", "V", "W", "X", "Y", "Z"}

\* char::is_ascii_whitespace: space, tab, line feed, form feed, carriage return.
AsciiWhitespace == {" ", "\t", "\n", "\f", "\r"}

DigitValue(c) ==
    CASE c = "0" -> 0 [] c = "1" -> 1 [] c = "2" -> 2 [] c = "3" -> 3 [] c = "4" -> 4
      [] c = "5" -> 5 [] c = "6" -> 6 [] c = "7" -> 7 [] c = "8" -> 8 [] c = "9" -> 9

\* The digits of buf from position i on, read as one decimal integer after
\* acc (the '.' is passed over); above the exact range the reading stops.
RECURSIVE DigitsFrom(_, _, _)
DigitsFrom(buf, i, acc) ==
    IF i > Len(buf) \/ acc > Lim THEN acc
    ELSE IF buf[i] = "." THEN DigitsFrom(buf, i + 1, acc)
    ELSE DigitsFrom(buf, i + 1, acc * 10 + DigitValue(buf[i]))

\* The number of digits of buf after its '.'.
FractionDigits(buf) ==
    IF \E i \in 1..Len(buf) : buf[i] = "."
    THEN Len(buf) - (CHOOSE i \in 1..Len(buf) : buf[i] = ".")
    ELSE 0

\* buf.parse::<f64>() of digits with at most one '.': the f64 nearest to
\* the decimal, which is the decimal itself when it is in the exact range.
ParseF64(buf) ==
    LET num == DigitsFrom(buf, 1, 0)
        den == PowNat(10, FractionDigits(buf))
    IN  IF num > Lim \/ den > Lim THEN Lit(buf) ELSE Exact(FALSE, num, den, Lit(buf))

\* std::f64::consts::PI
PI == Sym("PI", <<>>)

\* An error, naming the offending text, raised after `next` characters were
\* consumed.
LexErr(msg, text, next) == [k |-> "err", msg |-> msg, text |-> text, next |-> next]

LexOk(tok, next) == [k |-> "ok", tok |-> tok, next |-> next]

Lexing == lexres.k = "none"

PeekChar == cs[cpos + 1]

\* lex_op with the tokens of '^' and '%' exchanged.
lex_op_CaretModulo(c) ==
    CASE c = "+" -> LexOk(Op("Plus"), cpos + 1)
      [] c = "-" -> LexOk(Op("Minus"), cpos + 1)
      [] c = "*" -> LexOk(Op("Star"), cpos + 1)
      [] c = "/" -> LexOk(Op("Slash"), cpos + 1)
      [] c = "^" -> LexOk(Op("Modulo"), cpos + 1)
      [] c = "%" -> LexOk(Op("Caret"), cpos + 1)
      [] c = "!" -> LexOk(Op("Factorial"), cpos + 1)
      [] c = "(" -> LexOk(LParen, cpos + 1)
      [] c = ")" -> LexOk(RParen, cpos + 1)
      [] OTHER -> LexErr("unrecognized character", <<c>>, cpos)

\* fn lex_op(c: char) -> Result<Token>
lex_op(c) ==
    CASE c = "+" -> LexOk(Op("Plus"), cpos + 1)
      [] c = "-" -> LexOk(Op("Minus"), cpos + 1)
      [] c = "*" -> LexOk(Op("Star"), cpos + 1)
      [] c = "/" -> LexOk(Op("Slash"), cpos + 1)
      [] c = "^" -> LexOk(Op("Caret"), cpos + 1)
      [] c = "%" -> LexOk(Op("Modulo"), cpos + 1)
      [] c = "!" -> LexOk(Op("Factorial"), cpos + 1)
      [] c = "(" -> LexOk(LParen, cpos + 1)
      [] c = ")" -> LexOk(RParen, cpos + 1)
      [] OTHER -> LexErr("unrecognized character", <<c>>, cpos)

\* The loop of lex_number ending the number at a second '.', not failing.
RECURSIVE NumberLoop_StopAtDot(_, _, _)
NumberLoop_StopAtDot(i, dot, buf) ==
    IF i < Len(cs) /\ cs[i + 1] \in AsciiDigit \cup {"."} /\ ~(cs[i + 1] = "." /\ dot)
    THEN NumberLoop_StopAtDot(i + 1, dot \/ cs[i + 1] = ".", Append(buf, cs[i + 1]))
    ELSE LexOk(Number(ParseF64(buf)), i)

\* The loop of lex_number from position i on (i characters consumed), with
\* the flag dot and the buffer buf.
RECURSIVE NumberLoop(_, _, _)
NumberLoop(i, dot, buf) ==
    IF i < Len(cs) /\ cs[i + 1] \in AsciiDigit \cup {"."}
    THEN IF cs[i + 1] = "." /\ dot
         THEN LexErr("number cannot contain more than one decimal point", buf, i)
         ELSE NumberLoop(i + 1, dot \/ cs[i + 1] = ".", Append(buf, cs[i + 1]))
    ELSE LexOk(Number(ParseF64(buf)), i)

\* fn lex_number(cs): a '0' is put in the buffer first when the number
\* begins with a '.'.
lex_number ==
    NumberLoop(cpos, FALSE, IF PeekChar = "." THEN <<"0">> ELSE <<>>)

\* The end of the run of ASCII letters that starts after i characters.
RECURSIVE IdentEnd(_)
IdentEnd(i) ==
    IF i < Len(cs) /\ cs[i + 1] \in AsciiAlphabetic THEN IdentEnd(i + 1) ELSE i

\* fn lex_ident(cs): the run of letters, looked up in the keyword table.
lex_ident ==
    LET next == IdentEnd(cpos)
        buf == SubSeq(cs, cpos + 1, next)
    IN  CASE buf = <<"s", "i", "n">> -> LexOk(Func("Sin"), next)
          [] buf = <<"c", "o", "s">> -> LexOk(Func("Cos"), next)
          [] buf = <<"t", "a", "n">> -> LexOk(Func("Tan"), next)
          [] buf = <<"a", "s", "i", "n">> -> LexOk(Func("Asin"), next)
          [] buf = <<"a", "c", "o", "s">> -> LexOk(Func("Acos"), next)
          [] buf = <<"a", "t", "a", "n">> -> LexOk(Func("Atan"), next)
          [] buf = <<"d", "e", "g">> -> LexOk(Func("Deg"), next)
          [] buf = <<"r", "a", "d">> -> LexOk(Func("Rad"), next)
          [] buf = <<"e", "x", "p">> -> LexOk(Func("Exp"), next)
          [] buf = <<"l", "n">> -> LexOk(Func("Ln"), next)
          [] buf = <<"l", "o", "g">> -> LexOk(Func("Log"), next)
          [] buf = <<"s", "q", "r", "t">> -> LexOk(Func("Sqrt"), next)
          [] buf = <<"p", "i">> -> LexOk(Number(PI), next)
          [] OTHER -> LexErr("unrecognized identifier", buf, next)

\* tokens.push(r?): the token is pushed, or the error ends lex and the
\* tokens pushed so far are dropped.
Push(r) ==
    /\ cpos' = r.next
    /\ IF r.k = "ok"
       THEN tokens' = Append(tokens, r.tok) /\ UNCHANGED lexres
       ELSE tokens' = <<>> /\ lexres' = r

parsevars == <<pos, stack, result, invocations, overflow_checks>>

\* if c.is_ascii_whitespace() { cs.next(); continue; }
LexWhitespace ==
    /\ Lexing /\ cpos < Len(cs) /\ PeekChar \in AsciiWhitespace
    /\ cpos' = cpos + 1
    /\ UNCHANGED <<cs, parts, lexres, tokens, parsevars>>

\* else if c.is_ascii_digit() || c == '.'
LexNumber ==
    /\ Lexing /\ cpos < Len(cs) /\ PeekChar \in AsciiDigit \cup {"."}
    /\ Push(lex_number)
    /\ UNCHANGED <<cs, parts, parsevars>>

\* else if c.is_ascii_alphabetic()
LexIdent ==
    /\ Lexing /\ cpos < Len(cs) /\ PeekChar \in AsciiAlphabetic
    /\ Push(lex_ident)
    /\ UNCHANGED <<cs, parts, parsevars>>

\* A character lex_op does not know passed over, not reported.
LexOp_SkipUnknown ==
    /\ Lexing /\ cpos < Len(cs)
    /\ PeekChar \notin AsciiWhitespace \cup AsciiDigit \cup {"."} \cup AsciiAlphabetic
    /\ cpos' = cpos + 1
    /\ tokens' = IF lex_op(PeekChar).k = "ok" THEN Append(tokens, lex_op(PeekChar).tok)
                 ELSE tokens
    /\ UNCHANGED <<cs, parts, lexres, parsevars>>

\* else { tokens.push(lex_op(c)?); cs.next(); }
LexOp ==
    /\ Lexing /\ cpos < Len(cs)
    /\ PeekChar \notin AsciiWhitespace \cup AsciiDigit \cup {"."} \cup AsciiAlphabetic
    /\ Push(lex_op(PeekChar))
    /\ UNCHANGED <<cs, parts, parsevars>>

\* The characters are used up: Ok(tokens).
LexEnd ==
    /\ Lexing /\ cpos = Len(cs)
    /\ lexres' = [k |-> "ok"]
    /\ UNCHANGED <<cs, cpos, parts, tokens, parsevars>>

\* lex, one iteration of its loop.
lex == LexWhitespace \/ LexNumber \/ LexIdent \/ LexOp \/ LexEnd

(***************************************************************************)
(* expresso/cocoa/src/lexer.rs: the lexer that inserts a '*' after a       *)
(* number.  Its lex_op is the lex_op above; a number starts at a digit     *)
(* only, and nothing is put in the buffer first.                           *)
(***************************************************************************)
\* fn eat_whitespace(cs): the position after the whitespace that starts
\* after i characters.
RECURSIVE eat_whitespace(_)
eat_whitespace(i) ==
    IF i < Len(cs) /\ cs[i + 1] \in AsciiWhitespace THEN eat_whitespace(i + 1) ELSE i

\* Some('(') | Some('s') | Some('c') | Some('t') | Some('e') | Some('p') | Some('l')
StarBefore == {"(", "s", "c", "t", "e", "p", "l"}

\* fn lex_number(cs) of this lexer.
lex_number_implicit == NumberLoop(cpos, FALSE, <<>>)

\* fn lex_ident(cs) of this lexer: its keyword table.
lex_ident_implicit ==
    LET next == IdentEnd(cpos)
        buf == SubSeq(cs, cpos + 1, next)
    IN  CASE buf = <<"s", "i", "n">> -> LexOk(Func("Sin"), next)
          [] buf = <<"c", "o", "s">> -> LexOk(Func("Cos"), next)
          [] buf = <<"t", "a", "n">> -> LexOk(Func("Tan"), next)
          [] buf = <<"a", "s", "i", "n">> -> LexOk(Func("Asin"), next)
          [] buf = <<"a", "c", "o", "s">> -> LexOk(Func("Acos"), next)
          [] buf = <<"a", "t", "a", "n">> -> LexOk(Func("Atan"), next)
          [] buf = <<"e", "x", "p">> -> LexOk(Func("Exp"), next)
          [] buf = <<"l", "n">> -> LexOk(Func("Ln"), next)
          [] buf = <<"l", "o", "g">> -> LexOk(Func("Log"), next)
          [] buf = <<"p", "i">> -> LexOk(Number(PI), next)
          [] OTHER -> LexErr("unrecognized identifier", buf, next)

\* if c.is_ascii_whitespace() { cs.next(); continue; }
ImplicitLexWhitespace ==
    /\ Lexing /\ cpos < Len(cs) /\ PeekChar \in AsciiWhitespace
    /\ cpos' = cpos + 1
    /\ UNCHANGED <<cs, parts, lexres, tokens, parsevars>>

\* else if c.is_ascii_digit(): the number is pushed, the whitespace after it
\* is eaten, and a Star is pushed when the next character is in StarBefore.
ImplicitLexNumber ==
    /\ Lexing /\ cpos < Len(cs) /\ PeekChar \in AsciiDigit
    /\ LET r == lex_number_implicit
           next == eat_whitespace(r.next)
       IN  IF r.k = "ok"
           THEN /\ cpos' = next
                /\ tokens' =
                     IF next < Len(cs) /\ cs[next + 1] \in StarBefore
                     THEN tokens \o <<r.tok, Op("Star")>>
                     ELSE Append(tokens, r.tok)
                /\ UNCHANGED lexres
           ELSE Push(r)
    /\ UNCHANGED <<cs, parts, parsevars>>

\* else if c.is_ascii_alphabetic()
ImplicitLexIdent ==
    /\ Lexing /\ cpos < Len(cs) /\ PeekChar \in AsciiAlphabetic
    /\ Push(lex_ident_implicit)
    /\ UNCHANGED <<cs, parts, parsevars>>

\* else { tokens.push(lex_op(c)?); cs.next(); }
ImplicitLexOp ==
    /\ Lexing /\ cpos < Len(cs)
    /\ PeekChar \notin AsciiWhitespace \cup AsciiDigit \cup AsciiAlphabetic
    /\ Push(lex_op(PeekChar))
    /\ UNCHANGED <<cs, parts, parsevars>>

\* The characters are used up: Ok(tokens).
ImplicitLexEnd ==
    /\ Lexing /\ cpos = Len(cs)
    /\ lexres' = [k |-> "ok"]
    /\ UNCHANGED <<cs, cpos, parts, tokens, parsevars>>

\* lex of this lexer, one iteration of its loop.
lex_implicit ==
    \/ ImplicitLexWhitespace \/ ImplicitLexNumber \/ ImplicitLexIdent
    \/ ImplicitLexOp \/ ImplicitLexEnd

(***************************************************************************)
(* The token sequences parse is called on, with bp = 0.                    *)
(***************************************************************************)
\* Longest token sequence of the exhaustive family.
MaxTokens == 4

\* Largest integer operand of the operator families.
MaxNum == 3

\* Largest operand of the factorial family.
MaxFact == 21

\* Largest magnitude of the operands of the modulo family.
MaxMod == 7

InfixOps == OpKind \ {"Factorial"}

Half(i) == Q(i < 0, Abs(i), 2)

Operands == {FromInt(i) : i \in 0..MaxNum} \cup {Half(5)}

BaseTokens ==
    {Number(FromInt(2)), Op("Plus"), Op("Minus"), Op("Star"), Op("Caret"),
     Op("Factorial"), Func("Sqrt"), LParen, RParen}

\* Every sequence of at most MaxTokens base tokens.
AnyTokens == UNION {[1..n -> BaseTokens] : n \in 0..MaxTokens}

\* a op1 b op2 c
InfixChains ==
    {<<Number(a), Op(o1), Number(b), Op(o2), Number(c)>> :
        a \in Operands, b \in Operands, c \in Operands, o1 \in InfixOps, o2 \in InfixOps}

\* f ( a ), f ( a op1 b ) and f ( a op1 b ) op2 c
FuncCalls ==
    {<<Func(f), LParen, Number(a), RParen>> : f \in FuncKind, a \in Operands}
    \cup
    {<<Func(f), LParen, Number(FromInt(a)), Op(o1), Number(FromInt(b)), RParen>> :
        f \in FuncKind, a \in 2..3, b \in 2..3, o1 \in InfixOps}
    \cup
    {<<Func(f), LParen, Number(FromInt(a)), Op(o1), Number(FromInt(a)), RParen,
       Op(o2), Number(FromInt(c))>> :
        f \in FuncKind, a \in 2..3, c \in 2..3, o1 \in InfixOps, o2 \in InfixOps}

\* n !, 20 ! !, x !, - x ! and ( - x ) !
Factorials ==
    {<<Number(FromInt(n)), Op("Factorial")>> : n \in 0..MaxFact}
    \cup {<<Number(FromInt(20)), Op("Factorial"), Op("Factorial")>>}
    \cup {<<Number(x), Op("Factorial")>> :
            x \in Operands \cup {FNeg(y) : y \in Operands}}
    \cup {<<Op("Minus"), Number(x), Op("Factorial")>> : x \in Operands}
    \cup {<<LParen, Op("Minus"), Number(x), RParen, Op("Factorial")>> : x \in Operands}

\* a % b for operands of either sign, as numbers and under a prefix minus
Modulos ==
    {<<Number(FromInt(a)), Op("Modulo"), Number(FromInt(b))>> :
        a \in (-MaxMod)..MaxMod, b \in (-MaxMod)..MaxMod}
    \cup {<<Op("Minus"), Number(FromInt(a)), Op("Modulo"), Number(FromInt(b))>> :
            a \in 0..MaxMod, b \in 0..MaxMod}
    \cup {<<Number(FromInt(a)), Op("Modulo"), Op("Minus"), Number(FromInt(b))>> :
            a \in 0..MaxMod, b \in 0..MaxMod}

\* Longest run of tokens after an excess ')'.
MaxTail == 2

\* '( a op b ) )' and 'a op b )', each followed by any tokens
ExcessParens ==
    LET Tails == UNION {[1..n -> BaseTokens] : n \in 0..MaxTail}
        E == {<<Number(FromInt(a)), Op(o), Number(FromInt(b))>> :
                 a \in 2..3, b \in 2..3, o \in InfixOps}
    IN  {<<LParen>> \o e \o <<RParen, RParen>> \o t : e \in E, t \in Tails}
        \cup {e \o <<RParen>> \o t : e \in E, t \in Tails}

\* '( 2 + 3 ) ) ) * 4'
ExcessExample ==
    <<LParen, Number(FromInt(2)), Op("Plus"), Number(FromInt(3)), RParen, RParen,
      RParen, Op("Star"), Number(FromInt(4))>>

\* u a, u a ! and u a op b for a prefix u
Unaries ==
    LET U == {Op("Plus"), Op("Minus")}
    IN  {<<u, Number(a)>> : u \in U, a \in Operands}
        \cup {<<u, Number(a), Op("Factorial")>> : u \in U, a \in Operands}
        \cup {<<u, Number(a), Op(o), Number(b)>> :
                 u \in U, a \in Operands, b \in Operands, o \in InfixOps}

ParseInputs ==
    AnyTokens \cup InfixChains \cup FuncCalls \cup Factorials \cup Modulos
    \cup ExcessParens \cup {ExcessExample} \cup Unaries

\* parse(&mut tokens.into_iter().peekable(), 0)
Init ==
    /\ tokens \in ParseInputs
    /\ pos = 0
    /\ stack = <<Frame(0)>>
    /\ invocations = 1
    /\ result = NoResult
    /\ overflow_checks \in BOOLEAN
    /\ cs = <<>> /\ cpos = 0 /\ parts = <<>> /\ lexres = [k |-> "idle"]

Next == parse

Spec == Init /\ [][Next]_vars

(***************************************************************************)
(* The input lines lex is called on.  A line is written as a list of       *)
(* pieces (parts), each a run of characters; cs is their concatenation.    *)
(***************************************************************************)
\* Longest line of the exhaustive family, in characters.
MaxChars == 4

\* Longest line of the lexeme family, in pieces.
MaxPieces == 3

CharAlphabet == {"1", "5", ".", " ", "l", "n", "+", "&"}

\* Every line of at most MaxChars characters, one piece per character.
AnyChars == UNION {[1..n -> {<<c>> : c \in CharAlphabet}] : n \in 0..MaxChars}

Keywords ==
    {<<"s", "i", "n">>, <<"c", "o", "s">>, <<"t", "a", "n">>, <<"a", "s", "i", "n">>,
     <<"a", "c", "o", "s">>, <<"a", "t", "a", "n">>, <<"d", "e", "g">>,
     <<"r", "a", "d">>, <<"e", "x", "p">>, <<"l", "n">>, <<"l", "o", "g">>,
     <<"s", "q", "r", "t">>, <<"p", "i">>}

OpChars == {"+", "-", "*", "/", "^", "%", "!", "(", ")"}

Numerals == {<<"2">>, <<"3">>, <<"2", ".", "5">>, <<".", "5">>, <<".">>}

\* Every line of one or two lexemes.
LexemePairs ==
    LET L == Keywords \cup {<<c>> : c \in OpChars} \cup Numerals
    IN  UNION {[1..n -> L] : n \in 1..2}

Pieces ==
    {<<"2">>, <<".", "5">>, <<"2", ".", "5">>,
     <<"s", "i", "n">>, <<"p", "i">>, <<"s", "q", "r", "t">>,
     <<"+">>, <<"-">>, <<"!">>, <<"(">>, <<")">>,
     <<" ">>, <<"\t">>,
     <<"&">>, <<"x">>, <<"1", ".", "2", ".", "3">>}

\* Every line of at most MaxPieces pieces: lexemes, whitespace, and text
\* that is no lexeme.
AnyPieces == UNION {[1..n -> Pieces] : n \in 0..MaxPieces}

\* "2 + 2" and "2 & 3"
Examples ==
    {<<<<"2">>, <<" ">>, <<"+">>, <<" ">>, <<"2">>>>,
     <<<<"2">>, <<" ">>, <<"&">>, <<" ">>, <<"3">>>>}

LexInputs == AnyChars \cup LexemePairs \cup AnyPieces \cup Examples

RECURSIVE Flatten(_)
Flatten(ps) == IF ps = <<>> THEN <<>> ELSE Head(ps) \o Flatten(Tail(ps))

\* lex(&mut line.chars().peekable())
InitLex ==
    /\ parts \in LexInputs
    /\ cs = Flatten(parts)
    /\ cpos = 0
    /\ tokens = <<>>
    /\ lexres = [k |-> "none"]
    /\ pos = 0 /\ stack = <<>> /\ result = NoResult /\ invocations = 0
    /\ overflow_checks = FALSE

SpecLex == InitLex /\ [][lex]_vars

(***************************************************************************)
(* The input lines the lexer of expresso/cocoa is called on.               *)
(***************************************************************************)
ImplicitPieces ==
    {<<"2">>, <<"2", ".", "5">>, <<" ">>, <<"\t">>, <<"(">>, <<")">>, <<"/">>, <<"+">>,
     <<"s", "i", "n">>, <<"c", "o", "s">>, <<"t", "a", "n">>, <<"a", "s", "i", "n">>,
     <<"a", "c", "o", "s">>, <<"a", "t", "a", "n">>, <<"e", "x", "p">>, <<"l", "n">>,
     <<"l", "o", "g">>, <<"p", "i">>, <<"x">>, <<".">>}

\* "2(3)" and "2pi/2pi"
ImplicitExamples ==
    {<<<<"2">>, <<"(">>, <<"3">>, <<")">>>>,
     <<<<"2">>, <<"p", "i">>, <<"/">>, <<"2">>, <<"p", "i">>>>}

ImplicitInputs ==
    UNION {[1..n -> ImplicitPieces] : n \in 0..MaxPieces} \cup ImplicitExamples

InitImplicit ==
    /\ parts \in ImplicitInputs
    /\ cs = Flatten(parts)
    /\ cpos = 0
    /\ tokens = <<>>
    /\ lexres = [k |-> "none"]
    /\ pos = 0 /\ stack = <<>> /\ result = NoResult /\ invocations = 0
    /\ overflow_checks = FALSE

SpecImplicit == InitImplicit /\ [][lex_implicit]_vars

(***************************************************************************)
(* Properties of parse                                                     *)
(***************************************************************************)
Done == result.k # "none"

\* The binding powers the precedence claim states.
ClaimedBp(o) ==
    CASE o \in {"Plus", "Minus"} -> 5
      [] o \in {"Star", "Slash"} -> 10
      [] o = "Modulo" -> 15
      [] o = "Caret" -> 25

IsNumber(i) == tokens[i].t = "Number"

IsInfix(i) == tokens[i].t = "Op" /\ tokens[i].op \in InfixOps

\* a op1 b op2 c
IsInfixChain ==
    /\ Len(tokens) = 5
    /\ IsNumber(1) /\ IsInfix(2) /\ IsNumber(3) /\ IsInfix(4) /\ IsNumber(5)

\* a op1 (b op2 c)
GroupRight ==
    Combine(tokens[2].op, tokens[1].num,
            Combine(tokens[4].op, tokens[3].num, tokens[5].num))

\* (a op1 b) op2 c
GroupLeft ==
    Combine(tokens[4].op,
            Combine(tokens[2].op, tokens[1].num, tokens[3].num), tokens[5].num)

\* C1: on 'a op1 b op2 c' parse(tokens, 0) returns a op1 (b op2 c) when op2
\* binds tighter than op1 and (a op1 b) op2 c when op1 binds tighter than
\* op2, with the binding powers +,- (5) < *,/ (10) < % (15) < ^ (25).
C1_Precedence ==
    (Done /\ IsInfixChain) =>
        /\ ClaimedBp(tokens[4].op) > ClaimedBp(tokens[2].op) => result = Ok(GroupRight)
        /\ ClaimedBp(tokens[2].op) > ClaimedBp(tokens[4].op) => result = Ok(GroupLeft)

\* '2 + 2 * 3' has been evaluated to 8.
C1_Witness ==
    /\ tokens = <<Number(FromInt(2)), Op("Plus"), Number(FromInt(2)), Op("Star"),
                  Number(FromInt(3))>>
    /\ result = Ok(FromInt(8))

\* C2: on 'a ^ b ^ c' parse(tokens, 0) returns a ^ (b ^ c); for every other
\* infix operator op and any op' of the same binding power, 'a op b op' c'
\* returns (a op b) op' c.
C2_Associativity ==
    (Done /\ IsInfixChain) =>
        /\ (tokens[2].op = "Caret" /\ tokens[4].op = "Caret") => result = Ok(GroupRight)
        /\ (tokens[2].op # "Caret" /\ ClaimedBp(tokens[2].op) = ClaimedBp(tokens[4].op))
             => result = Ok(GroupLeft)

\* '2 ^ 3 ^ 2' has been evaluated to 512.
C2_Witness ==
    /\ tokens = <<Number(FromInt(2)), Op("Caret"), Number(FromInt(3)), Op("Caret"),
                  Number(FromInt(2))>>
    /\ result = Ok(FromInt(512))

\* f ( a op1 b ) op2 c
IsFuncCall ==
    /\ Len(tokens) = 8
    /\ tokens[1].t = "Func" /\ tokens[2] = LParen
    /\ IsNumber(3) /\ IsInfix(4) /\ IsNumber(5)
    /\ tokens[6] = RParen /\ IsInfix(7) /\ IsNumber(8)

\* C3: on 'f ( E ) op c' parse(tokens, 0) returns f(value of E) op c: with
\* E = 'a op1 b', f(a op1 b) op2 c ('sin ( 2 + 2 ) - 3' is sin(2 + 2) - 3).
C3_FunctionApplication ==
    (Done /\ IsFuncCall) =>
        result = Ok(Combine(tokens[7].op,
                            FuncEval(tokens[1].op,
                                     Combine(tokens[4].op, tokens[3].num, tokens[5].num)),
                            tokens[8].num))

\* Whether the '(' at position i has its ')' later in the tokens: the first
\* ')' from position j on that is not the partner of a '(' opened since i.
RECURSIVE ClosedFrom(_, _)
ClosedFrom(j, depth) ==
    IF j > Len(tokens) THEN FALSE
    ELSE IF tokens[j] = LParen THEN ClosedFrom(j + 1, depth + 1)
    ELSE IF tokens[j] = RParen THEN depth = 0 \/ ClosedFrom(j + 1, depth - 1)
    ELSE ClosedFrom(j + 1, depth)

Unmatched(i) == tokens[i] = LParen /\ ~ClosedFrom(i + 1, 0)

\* C4: when parse has consumed an opening parenthesis (of a group or of a
\* function argument) that has no matching closing parenthesis later in the
\* sequence, parse(tokens, 0) returns an error and never a value.
C4_UnmatchedOpener ==
    (Done /\ \E i \in 1..pos : Unmatched(i)) => result.k = "err"

\* The product n * (n-1) * ... * 1 as an integer of any size, in 16-bit
\* limbs (at least the four of a u64).
RECURSIVE Product(_)
Product(n) ==
    IF n = 0 THEN U64(1)
    ELSE LET p == MulLimbs(Product(n - 1), n, 1, 0)
         IN  IF p[Len(p)] = 0 THEN SubSeq(p, 1, Len(p) - 1) ELSE p

\* n !
IsFactorialOf(n) == tokens = <<Number(FromInt(n)), Op("Factorial")>>

\* C5: for every non-negative integer n, n ! evaluates to the product
\* n * (n-1) * ... * 1 (0! = 1), also when the product does not fit in 64
\* bits.
C5_FactorialValue ==
    \A n \in 0..MaxFact :
        (Done /\ IsFactorialOf(n)) => result = Ok(U64AsF64(Product(n)))

\* The state in which the loop is about to consume a '!'.
AtFactorial ==
    /\ At("loop") /\ Peek = Op("Factorial") /\ OpBp("Factorial") > Top.bp
    /\ IsQ(Top.lhs)

Negative(v) == v.neg /\ v.n # 0

\* C6: whenever parse consumes a '!' whose left operand is negative or has a
\* non-zero fractional part, the whole evaluation ends with an error and no
\* value: the negative-number error if the operand is negative, otherwise
\* the non-integer error.  '( - 1 ) !' and '2.5 !' fail; '- 1 !' is -(1!).
C6_FactorialDomain ==
    /\ [][(AtFactorial /\ (Negative(Top.lhs) \/ Top.lhs.d # 1)) =>
            result' = Err(IF Negative(Top.lhs)
                          THEN "cannot calculate factorial of negative numbers"
                          ELSE "cannot calculate factorial of non integers")]_vars
    /\ [](Done =>
            /\ tokens = <<LParen, Op("Minus"), Number(FromInt(1)), RParen, Op("Factorial")>>
                 => result = Err("cannot calculate factorial of negative numbers")
            /\ tokens = <<Number(Half(5)), Op("Factorial")>>
                 => result = Err("cannot calculate factorial of non integers")
            /\ tokens = <<Op("Minus"), Number(FromInt(1)), Op("Factorial")>>
                 => result = Ok(FromInt(-1)))

\* '( - 1 ) !' has failed with the negative-number error.
C6_Witness ==
    /\ tokens = <<LParen, Op("Minus"), Number(FromInt(1)), RParen, Op("Factorial")>>
    /\ pos = 5
    /\ result = Err("cannot calculate factorial of negative numbers")

\* The operands of a % b, written as numbers or under a prefix minus.
ModA ==
    IF tokens[1] = Op("Minus") THEN FNeg(tokens[2].num) ELSE tokens[1].num

ModB ==
    IF tokens[Len(tokens) - 1] = Op("Minus") THEN FNeg(tokens[Len(tokens)].num)
    ELSE tokens[Len(tokens)].num

\* a % b, - a % b or a % - b, for integers a and b
IsModulo ==
    /\ \/ Len(tokens) = 3 /\ IsNumber(1) /\ tokens[2] = Op("Modulo") /\ IsNumber(3)
       \/ /\ Len(tokens) = 4 /\ tokens[1] = Op("Minus") /\ IsNumber(2)
          /\ tokens[3] = Op("Modulo") /\ IsNumber(4)
       \/ /\ Len(tokens) = 4 /\ IsNumber(1) /\ tokens[2] = Op("Modulo")
          /\ tokens[3] = Op("Minus") /\ IsNumber(4)
    /\ IsQ(ModA) /\ ModA.d = 1 /\ IsQ(ModB) /\ ModB.d = 1

\* r = a - b*q for an integer q
Congruent(r) == (Scaled(ModA, 1) - Scaled(r, 1)) % ModB.n = 0

IsInteger(r) == IsQ(r) /\ r.d = 1

\* C7 as stated: 'a % b' with non-zero b evaluates to r with a = b*q + r for
\* an integer q, and r has the sign of the divisor b, for divisors of either
\* sign.
C7_ModuloSignOfDivisor ==
    (Done /\ IsModulo /\ ModB.n # 0) =>
        /\ result.k = "ok" /\ IsInteger(result.v) /\ Congruent(result.v)
        /\ result.v.n < ModB.n
        /\ result.v.n # 0 => result.v.neg = ModB.neg

\* C7 amended: 'a % b' with integers a and non-zero b evaluates to the
\* Euclidean remainder r, a = b*q + r for an integer q and 0 <= r < |b|: r is
\* never negative, whatever the sign of the divisor.
C7_ModuloEuclidean ==
    (Done /\ IsModulo /\ ModB.n # 0) =>
        /\ result.k = "ok" /\ IsInteger(result.v) /\ Congruent(result.v)
        /\ result.v.n < ModB.n
        /\ ~Negative(result.v)

\* '- 7 % 3' has been evaluated to 2.
C7_Witness ==
    /\ tokens = <<Op("Minus"), Number(FromInt(7)), Op("Modulo"), Number(FromInt(3))>>
    /\ result = Ok(FromInt(2))

\* Whether the step takes a ')' out of the tokens.
ConsumesRParen == \E i \in (pos + 1)..pos' : tokens[i] = RParen

\* Whether some invocation is waiting for the ')' of its group.
OpenGroup == \E i \in 1..Len(stack) : stack[i].st = "group"

\* '( a op b ) ) ...' and 'a op b ) ...'
IsExcessGroup ==
    /\ Len(tokens) >= 6
    /\ tokens[1] = LParen /\ IsNumber(2) /\ IsInfix(3) /\ IsNumber(4)
    /\ tokens[5] = RParen /\ tokens[6] = RParen

IsExcessPlain ==
    /\ Len(tokens) >= 4
    /\ IsNumber(1) /\ IsInfix(2) /\ IsNumber(3) /\ tokens[4] = RParen

IsPrefix(i) == tokens[i].t = "Op" /\ tokens[i].op \in {"Plus", "Minus"}

\* What the prefix operator of the tokens makes of the value v.
Prefixed(v) == IF tokens[1].op = "Minus" THEN FNeg(v) ELSE v

\* u a
IsUnaryAlone == Len(tokens) = 2 /\ IsPrefix(1) /\ IsNumber(2)

\* u a !
IsUnaryFactorial ==
    Len(tokens) = 3 /\ IsPrefix(1) /\ IsNumber(2) /\ tokens[3] = Op("Factorial")

\* u a op b
IsUnaryInfix ==
    Len(tokens) = 4 /\ IsPrefix(1) /\ IsNumber(2) /\ IsInfix(3) /\ IsNumber(4)

\* C12: the operand of a leading '+' or '-' is parsed with binding power
\* 5 + 15 = 20, so it takes a following '^' or '!' and no other operator:
\* '- a ^ b' is -(a ^ b) and '- a !' is -(a!), '- a op b' is (-a) op b for
\* op among '%', '*', '/', '+', '-'; Minus negates the value of the operand
\* and Plus returns it unchanged.
C12_PrefixPlusMinus ==
    /\ [][(At("lead") /\ Peek.t = "Op" /\ Peek.op \in {"Plus", "Minus"}) =>
            /\ Len(stack') = Len(stack) + 1
            /\ stack'[Len(stack')].bp = 20]_vars
    /\ []((Done /\ IsUnaryAlone) => result = Ok(Prefixed(tokens[2].num)))
    /\ []((Done /\ IsUnaryInfix) =>
            result = Ok(IF tokens[3].op = "Caret"
                        THEN Prefixed(Combine("Caret", tokens[2].num, tokens[4].num))
                        ELSE Combine(tokens[3].op, Prefixed(tokens[2].num),
                                     tokens[4].num)))
    /\ []((Done /\ IsUnaryFactorial /\ ~tokens[2].num.neg) =>
            result = IF tokens[2].num.d # 1
                     THEN Err("cannot calculate factorial of non integers")
                     ELSE Ok(Prefixed(U64AsF64(Product(tokens[2].num.n)))))

\* '- 2 + 3' has been evaluated to 1 and '- 2 ^ 2' to -4.
C12_Witness ==
    \/ /\ tokens = <<Op("Minus"), Number(FromInt(2)), Op("Plus"), Number(FromInt(3))>>
       /\ result = Ok(FromInt(1))
    \/ /\ tokens = <<Op("Minus"), Number(FromInt(2)), Op("Caret"), Number(FromInt(2))>>
       /\ result = Ok(FromInt(-4))

\* Twice the tokens not yet consumed, plus the invocations that have not
\* returned.
Variant == 2 * (Len(tokens) - pos) + Len(stack)

\* Whether parse can take a step: one of the steps other than the factorial
\* is enabled, or the loop is at a '!' it consumes.
CanStep ==
    \/ ENABLED (\/ LeadNumber \/ LeadFunc \/ LeadUnary \/ LeadGroup \/ LeadError
                \/ LoopUnexpected \/ LoopInfix
                \/ ReturnTop \/ ReturnFunc \/ ReturnUnary \/ ReturnGroup \/ ReturnInfix)
    \/ /\ At("loop") /\ Peek = Op("Factorial") /\ OpBp("Factorial") > Top.bp
       /\ Factorial(Top.lhs) # {}

\* C13: parse terminates, with a value or an error: it is never stuck
\* before its result, every step lowers Variant, and the result is Ok or
\* Err.  An invocation consumes a token, or fails on the end of the tokens,
\* before it calls parse; an iteration of the loop breaks, fails or consumes
\* a token.  The number of invocations and the recursion depth are at most
\* the number of tokens.
C13_Termination ==
    /\ [](Done \/ CanStep)
    /\ [][Variant' < Variant]_vars
    /\ [](Done => result.k \in {"ok", "err"})
    /\ [][At("lead") => (pos' > pos \/ (Peek = NoToken /\ result'.k = "err"))]_vars
    /\ [][At("loop") =>
            \/ pos' > pos
            \/ result'.k = "err"
            \/ Breaks /\ Len(stack') < Len(stack)]_vars
    /\ [](invocations <= Len(tokens) /\ Len(stack) <= Len(tokens))

(***************************************************************************)
(* Properties of lex                                                       *)
(***************************************************************************)
LexDone == lexres.k \in {"ok", "err"}

IsWhitespace(p) == Len(p) = 1 /\ p[1] \in AsciiWhitespace

Dots(p) == Cardinality({i \in 1..Len(p) : p[i] = "."})

\* A number: digits with at most one '.', or a '.' alone.
IsNumeral(p) ==
    /\ Len(p) >= 1
    /\ \A i \in 1..Len(p) : p[i] \in AsciiDigit \cup {"."}
    /\ Dots(p) <= 1

IsKeyword(p) == p \in Keywords

IsOpChar(p) == Len(p) = 1 /\ p[1] \in OpChars

\* The line is a concatenation of valid lexemes and whitespace.
ValidLine ==
    \A i \in 1..Len(parts) :
        IsWhitespace(parts[i]) \/ IsNumeral(parts[i]) \/ IsKeyword(parts[i])
            \/ IsOpChar(parts[i])

Lexemes == SelectSeq(parts, LAMBDA p : ~IsWhitespace(p))

\* The value of a numeral: a leading '.' reads as '0.'.
NumeralValue(p) == ParseF64(IF p[1] = "." THEN <<"0">> \o p ELSE p)

\* The token each lexeme stands for.
TokenOf(p) ==
    CASE p = <<"+">> -> Op("Plus")
      [] p = <<"-">> -> Op("Minus")
      [] p = <<"*">> -> Op("Star")
      [] p = <<"/">> -> Op("Slash")
      [] p = <<"%">> -> Op("Modulo")
      [] p = <<"^">> -> Op("Caret")
      [] p = <<"!">> -> Op("Factorial")
      [] p = <<"(">> -> LParen
      [] p = <<")">> -> RParen
      [] p = <<"s", "i", "n">> -> Func("Sin")
      [] p = <<"c", "o", "s">> -> Func("Cos")
      [] p = <<"t", "a", "n">> -> Func("Tan")
      [] p = <<"a", "s", "i", "n">> -> Func("Asin")
      [] p = <<"a", "c", "o", "s">> -> Func("Acos")
      [] p = <<"a", "t", "a", "n">> -> Func("Atan")
      [] p = <<"d", "e", "g">> -> Func("Deg")
      [] p = <<"r", "a", "d">> -> Func("Rad")
      [] p = <<"e", "x", "p">> -> Func("Exp")
      [] p = <<"l", "n">> -> Func("Ln")
      [] p = <<"l", "o", "g">> -> Func("Log")
      [] p = <<"s", "q", "r", "t">> -> Func("Sqrt")
      [] p = <<"p", "i">> -> Number(PI)
      [] OTHER -> Number(NumeralValue(p))

\* One token per lexeme, in the order of the line, and the line used up.
OneTokenPerLexeme ==
    /\ lexres.k = "ok"
    /\ cpos = Len(cs)
    /\ tokens = [i \in 1..Len(Lexemes) |-> TokenOf(Lexemes[i])]

\* C8 as stated: for every line that is a concatenation of valid lexemes
\* with any amount of ASCII whitespace between them, lex returns exactly one
\* token per lexeme, in the order of the line, whitespace giving no token.
C8_TokenPerLexeme == (LexDone /\ ValidLine) => OneTokenPerLexeme

\* Two numerals, or two keywords, follow each other with nothing between.
Adjacent(i) ==
    \/ IsNumeral(parts[i]) /\ IsNumeral(parts[i + 1])
    \/ IsKeyword(parts[i]) /\ IsKeyword(parts[i + 1])

Separated == \A i \in 1..(Len(parts) - 1) : ~Adjacent(i)

\* C8 amended: the same, for the lines in which two numerals, and two
\* keywords, that follow each other have whitespace between them.
C8_TokenPerSeparatedLexeme == (LexDone /\ ValidLine /\ Separated) => OneTokenPerLexeme

\* "2 + 2" has been lexed to [Number(2.0), Op(Plus), Number(2.0)].
C8_Witness ==
    /\ cs = <<"2", " ", "+", " ", "2">>
    /\ lexres.k = "ok"
    /\ tokens = <<Number(FromInt(2)), Op("Plus"), Number(FromInt(2))>>

\* The end of the run of digits and '.' that starts at position i.
RECURSIVE NumeralEnd(_)
NumeralEnd(i) ==
    IF i < Len(cs) /\ cs[i + 1] \in AsciiDigit \cup {"."} THEN NumeralEnd(i + 1) ELSE i

NumeralRun == SubSeq(cs, cpos + 1, NumeralEnd(cpos + 1))

\* The position of the second '.' of the run p.
SecondDot(p) ==
    CHOOSE j \in 1..Len(p) :
        p[j] = "." /\ Cardinality({i \in 1..(j - 1) : p[i] = "."}) = 1

AtNumeral == Lexing /\ cpos < Len(cs) /\ PeekChar \in AsciiDigit \cup {"."}

RECURSIVE LetterRunEnd(_)
LetterRunEnd(i) ==
    IF i < Len(cs) /\ cs[i + 1] \in AsciiAlphabetic THEN LetterRunEnd(i + 1) ELSE i

\* A character that is no whitespace, digit, '.', letter or operator.
UnknownChar(i) ==
    cs[i] \notin AsciiWhitespace \cup AsciiDigit \cup {"."} \cup AsciiAlphabetic \cup OpChars

\* A maximal run of letters, starting at position i, that is no keyword.
UnknownIdent(i) ==
    /\ cs[i] \in AsciiAlphabetic
    /\ i = 1 \/ cs[i - 1] \notin AsciiAlphabetic
    /\ SubSeq(cs, i, LetterRunEnd(i)) \notin Keywords

\* C10: if the line contains a character that is not ASCII whitespace, a
\* digit, '.', a letter or one of + - * / ^ % ! ( ), or a maximal run of
\* letters that is not one of the keywords, lex returns an error and no
\* token list.
C10_UnrecognizedInput ==
    (LexDone /\ \E i \in 1..Len(cs) : UnknownChar(i) \/ UnknownIdent(i)) =>
        lexres.k = "err" /\ tokens = <<>>

\* "2 & 3" has failed with the unrecognized-character error naming '&'.
C10_Witness ==
    /\ cs = <<"2", " ", "&", " ", "3">>
    /\ lexres.k = "err"
    /\ lexres.msg = "unrecognized character" /\ lexres.text = <<"&">>


(***************************************************************************)
(* Properties of the lexer of expresso/cocoa                               *)
(***************************************************************************)
\* The identifiers the claim lists.
ClaimedKeywords ==
    {<<"s", "i", "n">>, <<"c", "o", "s">>, <<"t", "a", "n">>, <<"a", "s", "i", "n">>,
     <<"a", "c", "o", "s">>, <<"a", "t", "a", "n">>, <<"e", "x", "p">>, <<"l", "n">>,
     <<"l", "o", "g">>, <<"p", "i">>}

\* '(' and the first letters of the identifiers.
ClaimedStarBefore == {"("} \cup {Head(k) : k \in ClaimedKeywords}

\* The position after the digits and '.' from i on, and after the
\* whitespace from i on.
RECURSIVE AfterNumeral(_)
AfterNumeral(i) ==
    IF i < Len(cs) /\ cs[i + 1] \in AsciiDigit \cup {"."} THEN AfterNumeral(i + 1) ELSE i

RECURSIVE AfterSpaces(_)
AfterSpaces(i) ==
    IF i < Len(cs) /\ cs[i + 1] \in {" ", "\t", "\n", "\r", "\f"}
    THEN AfterSpaces(i + 1) ELSE i

\* The character after the number at cpos and the whitespace behind it.
AfterNumber == AfterSpaces(AfterNumeral(cpos))

\* C14: when lex has lexed a number and skipped the whitespace after it, it
\* has pushed the number and then one Op(Star) exactly when the next
\* character is '(' or the first letter of sin, cos, tan, asin, acos, atan,
\* exp, ln, log or pi, and the number alone otherwise; '2(3)' lexes as
\* 2 * ( 3 ) and '2pi/2pi' as 2 * pi / 2 * pi.
C14_ImplicitMultiplication ==
    /\ [][(/\ Lexing /\ cpos < Len(cs) /\ PeekChar \in AsciiDigit
           /\ lexres' = lexres) =>
            /\ cpos' = AfterNumber
            /\ Len(tokens') > Len(tokens)
            /\ tokens'[Len(tokens) + 1].t = "Number"
            /\ SubSeq(tokens', Len(tokens) + 2, Len(tokens')) =
                 IF AfterNumber < Len(cs) /\ cs[AfterNumber + 1] \in ClaimedStarBefore
                 THEN <<Op("Star")>> ELSE <<>>]_vars
    /\ []((lexres.k \in {"ok", "err"} /\ cs = <<"2", "(", "3", ")">>) =>
            /\ lexres.k = "ok"
            /\ tokens = <<Number(FromInt(2)), Op("Star"), LParen, Number(FromInt(3)),
                          RParen>>)
    /\ []((lexres.k \in {"ok", "err"} /\ cs = <<"2", "p", "i", "/", "2", "p", "i">>) =>
            /\ lexres.k = "ok"
            /\ tokens = <<Number(FromInt(2)), Op("Star"), Number(PI), Op("Slash"),
                          Number(FromInt(2)), Op("Star"), Number(PI)>>)

====
